---- MODULE Spec2Model ----
(***************************************************************************)
(* Model of motorparts/__init__.py, the Mopar portal client.               *)
(*                                                                         *)
(* Every client thread runs one API call at a time as a stack of Python    *)
(* frames.  One action is one statement group of one function: at most one *)
(* HTTP request, whose response is chosen by the portal (the environment). *)
(* log[t] records, for the call in progress, every request, sleep and      *)
(* cookie/storage operation in the order the code performs them.           *)
(***************************************************************************)
EXTENDS Integers, Sequences, FiniteSets, TLC

\* ------------------------------------------------------------------ bounds
MaxVehicles == 2      \* a profile lists 0..MaxVehicles vehicles
RecursionLimit == 5   \* frames a thread may nest (sys.getrecursionlimit(), scaled)
MaxToken == 2         \* distinct CSRF token values the portal hands out
MaxServiceId == 2     \* distinct serviceRequestId values
MaxItems == 2         \* items of a flat vehicle health report

\* --------------------------------------------------------- module constants
SIGNIN_URL == "https://www.mopar.com/sign-in"
SSO_URL == "https://sso.extra.chrysler.com/siteminderagent/forms/b2clogin.fcc"
PROFILE_URL == "https://www.mopar.com/moparsvc/user/getProfile"
TOKEN_URL == "https://www.mopar.com/moparsvc/token"
TOW_URL == "https://www.mopar.com/moparsvc/vehicle/tow-guide/vin"
VHR_URL == "https://www.mopar.com/moparsvc/getVHR"
REMOTE_LOCK_COMMAND_URL == "https://www.mopar.com/moparsvc/connect/lock"
REMOTE_ENGINE_COMMAND_URL == "https://www.mopar.com/moparsvc/connect/engine"
REMOTE_ALARM_COMMAND_URL == "https://www.mopar.com/moparsvc/connect/alarm"
COOKIE_PATH == "./motorparts_cookies.pickle"
COMMAND_LOCK == "LOCK"
COMMAND_UNLOCK == "UNLOCK"
COMMAND_ENGINE_ON == "START"
COMMAND_ENGINE_OFF == "STOP"
COMMAND_HORN == "HORN_LIGHT"
SUPPORTED_COMMANDS ==
    {COMMAND_LOCK, COMMAND_UNLOCK, COMMAND_ENGINE_ON, COMMAND_ENGINE_OFF, COMMAND_HORN}
\* default of _remote_status's interval parameter
interval == 3

\* ------------------------------------------------------------- universe
Threads == {1, 2}
\* a session is named by the username of its MoparAuth
Sessions == {"alice", "bob"}
NoSession == ""
Paths == {COOKIE_PATH, "./other_cookies.pickle"}
\* a command string outside SUPPORTED_COMMANDS, as a caller may pass one
Commands == SUPPORTED_COMMANDS \cup {"HONK"}
VehicleIndexes == (0 - 1)..MaxVehicles

\* ----------------------------------------------------------------- state
VARIABLES
    storage,   \* the file system: path -> [exists, data] (the pickled blob)
    auth,      \* session -> MoparAuth: [username, cookie_path]
    owner,     \* thread -> the session it uses (NoSession: thread unused)
    session,   \* session -> [built, cookies, csrf]
    stack,     \* thread -> sequence of frames, innermost last
    ret,       \* thread -> what the frame that just ended returned or raised
    log,       \* thread -> events of the call in progress, in order
    args,      \* thread -> arguments of the call in progress
    data,      \* the report node last handed to _traverse_report
    out        \* the dict _traverse_report returned for it

vars == <<storage, auth, owner, session, stack, ret, log, args, data, out>>

\* ------------------------------------------------------------ cookie jars
\* the cookies the portal sets during the three requests of a login
CookieNames == <<"sso", "saml", "portal">>
Cookie(u, name) == [user |-> u, name |-> name]
CookieOrder ==
    <<Cookie("alice", "sso"), Cookie("alice", "saml"), Cookie("alice", "portal"),
      Cookie("bob", "sso"), Cookie("bob", "saml"), Cookie("bob", "portal")>>
LoginJar(u) == {Cookie(u, CookieNames[i]) : i \in DOMAIN CookieNames}

\* pickle.dump of a cookie jar: the jar's cookies written out one after another
_save_cookies(jar) ==
    SelectSeq(CookieOrder, LAMBDA c : c \in jar)
_load_cookies_Nothing(blob) == {}
\* pickle.load: the jar holding the cookies read back
_load_cookies(blob) ==
    {blob[i] : i \in DOMAIN blob}

NoFile == [exists |-> FALSE, data |-> <<>>]
File(blob) == [exists |-> TRUE, data |-> blob]

\* ------------------------------------------------------ _traverse_report
\* JSON values of a report item: null or a string
PyNone == [type |-> "NoneType", v |-> ""]
Str(v) == [type |-> "str", v |-> v]
Item(key, value, severity, items) ==
    [itemKey |-> key, value |-> value, severity |-> severity, items |-> items]
\* a node without an 'items' key has items = <<>>: both flatten to {}
Node(items) == [items |-> items]

\* a Python dict as a function from its keys
EmptyDict == [k \in {} |-> PyNone]
\* out[key] = value
SetItem(d, key, value) ==
    [k \in DOMAIN d \cup {key} |-> IF k = key THEN value ELSE d[k]]
\* out.update(other)
Update(d, other) ==
    [k \in DOMAIN d \cup DOMAIN other |-> IF k \in DOMAIN other THEN other[k] ELSE d[k]]

RECURSIVE _traverse_report_NoUpperNull(_)
_traverse_report_NoUpperNull(node) ==
    LET RECURSIVE Loop(_, _)
        Loop(i, acc) ==
            IF i > Len(node.items) THEN acc
            ELSE LET item == node.items[i]
                     skip == \/ item.severity = "NonDisplay"
                             \/ item.itemKey = "categoryDesc"
                             \/ item.value \in {PyNone, Str("Null"), Str("N/A")}
                     value == IF item.value = Str("0.0") THEN Str("Ok") ELSE item.value
                 IN  IF skip
                       THEN Loop(i + 1, acc)
                       ELSE Loop(i + 1, Update(SetItem(acc, item.itemKey, value),
                                               _traverse_report_NoUpperNull(Node(item.items))))
    IN  Loop(1, EmptyDict)

RECURSIVE _traverse_report_ParentWins(_)
_traverse_report_ParentWins(node) ==
    LET RECURSIVE Loop(_, _)
        Loop(i, acc) ==
            IF i > Len(node.items) THEN acc
            ELSE LET item == node.items[i]
                     skip == \/ item.severity = "NonDisplay"
                             \/ item.itemKey = "categoryDesc"
                             \/ item.value \in {PyNone, Str("Null"), Str("N/A"), Str("NULL")}
                     value == IF item.value = Str("0.0") THEN Str("Ok") ELSE item.value
                 IN  IF skip
                       THEN Loop(i + 1, acc)
                       ELSE Loop(i + 1, SetItem(Update(acc,
                                    _traverse_report_ParentWins(Node(item.items))),
                                    item.itemKey, value))
    IN  Loop(1, EmptyDict)

RECURSIVE _traverse_report(_)
_traverse_report(node) ==
    LET RECURSIVE Loop(_, _)
        Loop(i, acc) ==
            IF i > Len(node.items) THEN acc
            ELSE LET item == node.items[i]
                     skip == \/ item.severity = "NonDisplay"
                             \/ item.itemKey = "categoryDesc"
                             \/ item.value \in {PyNone, Str("Null"), Str("N/A"), Str("NULL")}
                     value == IF item.value = Str("0.0") THEN Str("Ok") ELSE item.value
                 IN  IF skip
                       THEN Loop(i + 1, acc)
                       ELSE Loop(i + 1, Update(SetItem(acc, item.itemKey, value),
                                               _traverse_report(Node(item.items))))
    IN  Loop(1, EmptyDict)

\* the reportCards the portal serves in the full program's runs
SampleReports ==
    <<Node(<<Item("oilLife", Str("0.0"), "Normal", <<>>),
             Item("categoryDesc", Str("Engine"), "Normal", <<>>)>>),
      Node(<<Item("tires", Str("N/A"), "Normal",
                  <<Item("frontLeft", Str("32"), "Normal", <<>>)>>),
             Item("brakes", Str("Worn"), "Warning",
                  <<Item("pads", PyNone, "Warning", <<>>),
                    Item("brakes", Str("3mm"), "NonDisplay", <<>>)>>)>>)>>

\* --------------------------------------------------- frames, results, events
Frame(callable) ==
    [fn |-> Head(callable), rest |-> Tail(callable), pc |-> "start",
     id |-> 0, vin |-> 0, url |-> ""]

NoRet == [kind |-> "none", val |-> "", msg |-> "", n |-> 0]
Value(v, n) == [kind |-> "value", val |-> v, msg |-> "", n |-> n]
Exc(class, msg) == [kind |-> "exc", val |-> class, msg |-> msg, n |-> 0]
MoparError(msg) == Exc("MoparError", msg)

IsMoparError(r) == r.kind = "exc" /\ r.val = "MoparError"

\* the names the module binds, each with its decorators outermost first
Binding(name) ==
    CASE name = "get_profile" -> <<"authenticated", "get_profile">>
      [] name = "get_vehicle_health_report" ->
            <<"authenticated", "get_vehicle_health_report">>
      [] name = "get_tow_guide" -> <<"authenticated", "token", "get_tow_guide">>
      [] name = "remote_command" -> <<"token", "remote_command">>
      [] OTHER -> <<name>>

Top(t) == stack[t][Len(stack[t])]
Idle(t) == stack[t] = <<>>
At(t, fn, pc) == ~Idle(t) /\ Top(t).fn = fn /\ Top(t).pc = pc
Returned(t) == ret[t].kind # "none"
Sess(t) == session[owner[t]]

\* an event of the log; a request carries the session's cookies and CSRF header
Event(t, ev, url, resp, n) ==
    [ev |-> ev, url |-> url, resp |-> resp, n |-> n,
     id |-> 0, vin |-> 0, action |-> "",
     csrf |-> Sess(t).csrf, jar |-> Sess(t).cookies]

Emit(t, e) == log' = [log EXCEPT ![t] = Append(@, e)]

\* the frame on top moves to pc and calls callable
CallFrom(t, pc, frame) ==
    /\ stack' = [stack EXCEPT ![t] =
                    Append([@ EXCEPT ![Len(@)].pc = pc], frame)]
    /\ ret' = [ret EXCEPT ![t] = NoRet]
\* the frame on top moves to pc
Goto(t, pc) ==
    /\ stack' = [stack EXCEPT ![t] = [@ EXCEPT ![Len(@)].pc = pc]]
    /\ ret' = [ret EXCEPT ![t] = NoRet]
\* the frame on top ends, returning or raising r
Finish(t, r) ==
    /\ stack' = [stack EXCEPT ![t] = SubSeq(@, 1, Len(@) - 1)]
    /\ ret' = [ret EXCEPT ![t] = r]

\* ------------------------------------------------------ portal responses
\* profile fetch: a 403 errorCode document, a body that is not JSON, a
\* document with another errorCode and no vehicles, or a profile listing n
\* vehicles
ProfileResponses ==
    {[resp |-> "403", n |-> 0], [resp |-> "nonjson", n |-> 0],
     [resp |-> "errordoc", n |-> 0]}
        \cup {[resp |-> "profile", n |-> n] : n \in 0..MaxVehicles}
\* vehicle health report: not JSON, a document without reportCard (n = 0),
\* or one whose reportCard is SampleReports[n]
VhrResponses ==
    {[resp |-> "nonjson", n |-> 0]}
        \cup {[resp |-> "vhr", n |-> n] : n \in 0..Len(SampleReports)}
TowResponses == {"nonjson", "json"}
CommandResponses ==
    {[resp |-> "nonjson", n |-> 0]}
        \cup {[resp |-> "json", n |-> k] : k \in 1..MaxServiceId}
\* status values other than SUCCESS are all "not yet" to _remote_status
StatusResponses == {"SUCCESS", "PENDING", "FAILED", "nonjson"}
TokenResponses ==
    {[resp |-> "nonjson", n |-> 0]}
        \cup {[resp |-> "token", n |-> k] : k \in 1..MaxToken}

\* vehicle i of a profile: its vin and uuid
Vin(i) == i + 1

\* ------------------------------------------------------------ _login
_login_clear_Locked(t) ==
    /\ At(t, "_login", "start")
    /\ \A u \in Threads \ {t} :
          owner[u] = owner[t] =>
              \A i \in DOMAIN stack[u] :
                  ~(stack[u][i].fn = "authenticated" /\ stack[u][i].pc \in {"login", "tail"})
    /\ session' = [session EXCEPT ![owner[t]].cookies = {}]
    /\ Emit(t, [Event(t, "cookies.clear", "", "", 0) EXCEPT !.jar = {}])
    /\ Goto(t, "sso")
    /\ UNCHANGED <<data, out, storage, auth, owner, args>>

\* session.cookies.clear()
_login_clear(t) ==
    /\ At(t, "_login", "start")
    /\ session' = [session EXCEPT ![owner[t]].cookies = {}]
    /\ Emit(t, [Event(t, "cookies.clear", "", "", 0) EXCEPT !.jar = {}])
    /\ Goto(t, "sso")
    /\ UNCHANGED <<data, out, storage, auth, owner, args>>

\* session.post(SSO_URL, ...) and the two parsed.find(...).get('value'):
\* find returns None for a missing input, and None has no get
_login_sso(t) ==
    /\ At(t, "_login", "sso")
    /\ \E r \in {"form", "noRelayState", "noSAMLResponse"} :
        /\ Emit(t, Event(t, "POST", SSO_URL, r, 0))
        /\ IF r = "form"
             THEN Goto(t, "signin_post")
             ELSE Finish(t, Exc("AttributeError",
                                "'NoneType' object has no attribute 'get'"))
    /\ session' = [session EXCEPT ![owner[t]].cookies =
                      @ \cup {Cookie(auth[owner[t]].username, "sso")}]
    /\ UNCHANGED <<data, out, storage, auth, owner, args>>

\* session.post(SIGNIN_URL, {RelayState, SAMLResponse})
_login_signin_post(t) ==
    /\ At(t, "_login", "signin_post")
    /\ Emit(t, Event(t, "POST", SIGNIN_URL, "", 0))
    /\ session' = [session EXCEPT ![owner[t]].cookies =
                      @ \cup {Cookie(auth[owner[t]].username, "saml")}]
    /\ Goto(t, "signin_get")
    /\ UNCHANGED <<data, out, storage, auth, owner, args>>

_login_signin_get_SavesFirst(t) ==
    /\ At(t, "_login", "signin_get")
    /\ storage' = [storage EXCEPT ![auth[owner[t]].cookie_path] =
                      File(_save_cookies(Sess(t).cookies))]
    /\ Emit(t, Event(t, "_save_cookies", auth[owner[t]].cookie_path, "", 0))
    /\ Goto(t, "save")
    /\ UNCHANGED <<data, out, auth, owner, session, args>>

\* session.get(SIGNIN_URL)
_login_signin_get(t) ==
    /\ At(t, "_login", "signin_get")
    /\ Emit(t, Event(t, "GET", SIGNIN_URL, "", 0))
    /\ session' = [session EXCEPT ![owner[t]].cookies =
                      @ \cup {Cookie(auth[owner[t]].username, "portal")}]
    /\ Goto(t, "save")
    /\ UNCHANGED <<data, out, storage, auth, owner, args>>

\* _save_cookies(session.cookies, session.auth.cookie_path)
_login_save(t) ==
    /\ At(t, "_login", "save")
    /\ storage' = [storage EXCEPT ![auth[owner[t]].cookie_path] =
                      File(_save_cookies(Sess(t).cookies))]
    /\ Emit(t, Event(t, "_save_cookies", auth[owner[t]].cookie_path, "", 0))
    /\ Finish(t, Value("None", 0))
    /\ UNCHANGED <<data, out, auth, owner, session, args>>

\* ------------------------------------------------------- authenticated
\* try: return function(*args)
authenticated_try(t) ==
    /\ At(t, "authenticated", "start")
    /\ CallFrom(t, "try", Frame(Top(t).rest))
    /\ UNCHANGED <<data, out, storage, auth, owner, session, log, args>>

authenticated_except_NoLogin(t) ==
    /\ At(t, "authenticated", "try")
    /\ Returned(t)
    /\ IF IsMoparError(ret[t])
         THEN CallFrom(t, "tail", Frame(Top(t).rest))
         ELSE Finish(t, ret[t])
    /\ UNCHANGED <<data, out, storage, auth, owner, session, log, args>>

\* the try block ended: a MoparError is caught and _login(args[0]) called,
\* anything else leaves the wrapper
authenticated_except(t) ==
    /\ At(t, "authenticated", "try")
    /\ Returned(t)
    /\ IF IsMoparError(ret[t])
         THEN CallFrom(t, "login", Frame(<<"_login">>))
         ELSE Finish(t, ret[t])
    /\ UNCHANGED <<data, out, storage, auth, owner, session, log, args>>

\* after _login: return function(*args), outside any try
authenticated_retry(t) ==
    /\ At(t, "authenticated", "login")
    /\ Returned(t)
    /\ IF ret[t].kind = "exc"
         THEN Finish(t, ret[t])
         ELSE CallFrom(t, "tail", Frame(Top(t).rest))
    /\ UNCHANGED <<data, out, storage, auth, owner, session, log, args>>

\* a frame whose last statement is `return f(...)` hands on what f returned
\* or raised
Return(t) ==
    /\ ~Idle(t)
    /\ Top(t).pc = "tail"
    /\ Returned(t)
    /\ Finish(t, ret[t])
    /\ UNCHANGED <<data, out, storage, auth, owner, session, log, args>>

\* --------------------------------------------------------------- token
token_KeepsHeader(t) ==
    /\ At(t, "token", "start")
    /\ \E r \in TokenResponses :
        /\ Emit(t, [Event(t, "GET", TOKEN_URL, r.resp, r.n) EXCEPT !.csrf = 0])
        /\ IF r.resp = "nonjson"
             THEN /\ Finish(t, Exc("JSONDecodeError", ""))
                  /\ UNCHANGED session
             ELSE /\ session' = [session EXCEPT ![owner[t]].csrf =
                                    IF @ = 0 THEN r.n ELSE @]
                  /\ CallFrom(t, "tail", Frame(Top(t).rest))
    /\ UNCHANGED <<data, out, storage, auth, owner, args>>

\* resp = session.get(TOKEN_URL).json(); headers.update(...); return function(...)
token(t) ==
    /\ At(t, "token", "start")
    /\ \E r \in TokenResponses :
        /\ Emit(t, [Event(t, "GET", TOKEN_URL, r.resp, r.n) EXCEPT !.csrf = 0])
        /\ IF r.resp = "nonjson"
             THEN /\ Finish(t, Exc("JSONDecodeError", ""))
                  /\ UNCHANGED session
             ELSE /\ session' = [session EXCEPT ![owner[t]].csrf = r.n]
                  /\ CallFrom(t, "tail", Frame(Top(t).rest))
    /\ UNCHANGED <<data, out, storage, auth, owner, args>>

\* --------------------------------------------------------- get_profile
get_profile(t) ==
    /\ At(t, "get_profile", "start")
    /\ \E r \in ProfileResponses :
        /\ Emit(t, Event(t, "GET", PROFILE_URL, r.resp, r.n))
        /\ IF r.resp \in {"403", "nonjson"}
             THEN Finish(t, MoparError("not logged in"))
             ELSE Finish(t, Value(r.resp, r.n))
    /\ UNCHANGED <<data, out, storage, auth, owner, session, args>>

\* ---------------------------------------------------- _validate_vehicle
_validate_vehicle_OffByOne(vehicle_index, n) ==
    vehicle_index > n \/ vehicle_index < 0

\* TRUE iff _validate_vehicle raises MoparError("vehicle does not exist")
_validate_vehicle(vehicle_index, n) ==
    vehicle_index >= n \/ vehicle_index < 0

\* ------------------------------------------- get_vehicle_health_report
\* profile = get_profile(session)
get_vehicle_health_report_begin(t) ==
    /\ At(t, "get_vehicle_health_report", "start")
    /\ CallFrom(t, "profile", Frame(Binding("get_profile")))
    /\ UNCHANGED <<data, out, storage, auth, owner, session, log, args>>

\* _validate_vehicle(...); return session.get(VHR_URL, params={uuid}).json()
get_vehicle_health_report_fetch(t) ==
    /\ At(t, "get_vehicle_health_report", "profile")
    /\ Returned(t)
    /\ IF ret[t].kind = "exc"
         THEN Finish(t, ret[t]) /\ UNCHANGED log
         ELSE IF ret[t].val = "errordoc"
         THEN Finish(t, Exc("KeyError", "vehicles")) /\ UNCHANGED log
         ELSE IF _validate_vehicle(args[t].vehicle_index, ret[t].n)
         THEN Finish(t, MoparError("vehicle does not exist")) /\ UNCHANGED log
         ELSE \E r \in VhrResponses :
                /\ Emit(t, [Event(t, "GET", VHR_URL, r.resp, r.n)
                               EXCEPT !.vin = Vin(args[t].vehicle_index)])
                /\ IF r.resp = "nonjson"
                     THEN Finish(t, Exc("JSONDecodeError", ""))
                     ELSE Finish(t, Value("vhr", r.n))
    /\ UNCHANGED <<data, out, storage, auth, owner, session, args>>

\* ------------------------------------------------------------ get_report
\* vhr = get_vehicle_health_report(session, vehicle_index)
get_report_begin(t) ==
    /\ At(t, "get_report", "start")
    /\ CallFrom(t, "vhr", Frame(Binding("get_vehicle_health_report")))
    /\ UNCHANGED <<data, out, storage, auth, owner, session, log, args>>

\* if 'reportCard' not in vhr: raise; return _traverse_report(vhr['reportCard'])
get_report_end(t) ==
    /\ At(t, "get_report", "vhr")
    /\ Returned(t)
    /\ IF ret[t].kind = "exc"
         THEN Finish(t, ret[t]) /\ UNCHANGED <<data, out>>
         ELSE IF ret[t].n = 0
         THEN Finish(t, MoparError("no vhr found")) /\ UNCHANGED <<data, out>>
         ELSE /\ data' = SampleReports[ret[t].n]
              /\ out' = _traverse_report(SampleReports[ret[t].n])
              /\ Finish(t, Value("report", 0))
    /\ UNCHANGED <<storage, auth, owner, session, log, args>>

\* --------------------------------------------------------- get_tow_guide
\* profile = get_profile(session)
get_tow_guide_begin(t) ==
    /\ At(t, "get_tow_guide", "start")
    /\ CallFrom(t, "profile", Frame(Binding("get_profile")))
    /\ UNCHANGED <<data, out, storage, auth, owner, session, log, args>>

\* _validate_vehicle(...); return session.post(TOW_URL, {vin}).json()
get_tow_guide_post(t) ==
    /\ At(t, "get_tow_guide", "profile")
    /\ Returned(t)
    /\ IF ret[t].kind = "exc"
         THEN Finish(t, ret[t]) /\ UNCHANGED log
         ELSE IF ret[t].val = "errordoc"
         THEN Finish(t, Exc("KeyError", "vehicles")) /\ UNCHANGED log
         ELSE IF _validate_vehicle(args[t].vehicle_index, ret[t].n)
         THEN Finish(t, MoparError("vehicle does not exist")) /\ UNCHANGED log
         ELSE \E r \in TowResponses :
                /\ Emit(t, [Event(t, "POST", TOW_URL, r, 0)
                               EXCEPT !.vin = Vin(args[t].vehicle_index)])
                /\ IF r = "nonjson"
                     THEN Finish(t, Exc("JSONDecodeError", ""))
                     ELSE Finish(t, Value("towguide", 0))
    /\ UNCHANGED <<data, out, storage, auth, owner, session, args>>

\* --------------------------------------------------------- _remote_status
CommandUrls ==
    {REMOTE_LOCK_COMMAND_URL, REMOTE_ENGINE_COMMAND_URL, REMOTE_ALARM_COMMAND_URL}
\* the status query is a GET of the url the command was POSTed to
IsStatusQuery(e) == e.ev = "GET" /\ e.url \in CommandUrls
StatusQueries(t) ==
    Cardinality({i \in DOMAIN log[t] : IsStatusQuery(log[t][i])})

IsSuccess_NotFailed(status) == status # "FAILED"
\* resp['status'] == 'SUCCESS'
IsSuccess(status) == status = "SUCCESS"

\* resp = session.get(url, params={remoteServiceRequestID, vin}).json();
\* if resp['status'] == 'SUCCESS': return 'completed'
_remote_status_query(t) ==
    /\ At(t, "_remote_status", "start")
    /\ \E r \in StatusResponses :
        /\ Emit(t, [Event(t, "GET", Top(t).url, r, 0)
                       EXCEPT !.id = Top(t).id, !.vin = Top(t).vin])
        /\ CASE r = "nonjson" -> Finish(t, Exc("JSONDecodeError", ""))
             [] IsSuccess(r) -> Finish(t, Value("completed", 0))
             [] OTHER -> Goto(t, "sleep")
    /\ UNCHANGED <<data, out, storage, auth, owner, session, args>>

\* time.sleep(interval); return _remote_status(session, serviceRequestId, vin, url)
\* The recursive call nests one more frame for every status that is not
\* SUCCESS, and the interpreter refuses a call beyond its recursion limit with
\* RecursionError.  (Every other call chain of the module nests at most five
\* frames.)
_remote_status_sleep(t) ==
    /\ At(t, "_remote_status", "sleep")
    /\ Emit(t, [Event(t, "sleep", "", "", interval) EXCEPT !.csrf = 0, !.jar = {}])
    /\ IF Len(stack[t]) >= RecursionLimit
         THEN Finish(t, Exc("RecursionError", "maximum recursion depth exceeded"))
         ELSE CallFrom(t, "tail", [Top(t) EXCEPT !.pc = "start"])
    /\ UNCHANGED <<data, out, storage, auth, owner, session, args>>

\* -------------------------------------------------------- remote_command
\* the if/elif chain choosing the endpoint of a supported command
CommandUrl(command) ==
    IF command \in {COMMAND_LOCK, COMMAND_UNLOCK} THEN REMOTE_LOCK_COMMAND_URL
    ELSE IF command \in {COMMAND_ENGINE_ON, COMMAND_ENGINE_OFF}
    THEN REMOTE_ENGINE_COMMAND_URL
    ELSE REMOTE_ALARM_COMMAND_URL

ShouldPoll_Always(poll) == TRUE
\* if poll:
ShouldPoll(poll) == poll

remote_command_begin_NoCheck(t) ==
    /\ At(t, "remote_command", "start")
    /\ CallFrom(t, "profile", Frame(Binding("get_profile")))
    /\ UNCHANGED <<data, out, storage, auth, owner, session, log, args>>

\* if command not in SUPPORTED_COMMANDS: raise; profile = get_profile(session)
remote_command_begin(t) ==
    /\ At(t, "remote_command", "start")
    /\ IF args[t].command \notin SUPPORTED_COMMANDS
         THEN Finish(t, MoparError("unsupported command"))
         ELSE CallFrom(t, "profile", Frame(Binding("get_profile")))
    /\ UNCHANGED <<data, out, storage, auth, owner, session, log, args>>

\* _validate_vehicle(...); resp = session.post(url, {pin, vin, action}).json();
\* if poll: return _remote_status(...); return 'submitted'
remote_command_post(t) ==
    /\ At(t, "remote_command", "profile")
    /\ Returned(t)
    /\ IF ret[t].kind = "exc"
         THEN Finish(t, ret[t]) /\ UNCHANGED log
         ELSE IF ret[t].val = "errordoc"
         THEN Finish(t, Exc("KeyError", "vehicles")) /\ UNCHANGED log
         ELSE IF _validate_vehicle(args[t].vehicle_index, ret[t].n)
         THEN Finish(t, MoparError("vehicle does not exist")) /\ UNCHANGED log
         ELSE \E r \in CommandResponses :
                LET url == CommandUrl(args[t].command)
                    vin == Vin(args[t].vehicle_index)
                IN  /\ Emit(t, [Event(t, "POST", url, r.resp, r.n)
                                   EXCEPT !.vin = vin, !.action = args[t].command])
                    /\ IF r.resp = "nonjson"
                         THEN Finish(t, Exc("JSONDecodeError", ""))
                         ELSE IF ShouldPoll(args[t].poll)
                         THEN CallFrom(t, "tail",
                                  [Frame(<<"_remote_status">>)
                                      EXCEPT !.id = r.n, !.vin = vin, !.url = url])
                         ELSE Finish(t, Value("submitted", 0))
    /\ UNCHANGED <<data, out, storage, auth, owner, session, args>>

\* ----------------------------------------------------------- get_session
FreshSession == [built |-> FALSE, cookies |-> {}, csrf |-> 0]

\* session = requests.session(); ...; if os.path.exists(cookie_path):
\* session.cookies = _load_cookies(cookie_path) else: _login(session)
get_session_begin(t) ==
    /\ At(t, "get_session", "start")
    /\ LET path == auth[owner[t]].cookie_path
           file == storage[path]
           exists == [Event(t, "os.path.exists", path, "", 0)
                         EXCEPT !.jar = {}, !.csrf = 0]
       IN  IF file.exists
             THEN /\ session' = [session EXCEPT ![owner[t]] =
                        [built |-> TRUE, cookies |-> _load_cookies(file.data),
                         csrf |-> 0]]
                  /\ log' = [log EXCEPT ![t] =
                        @ \o <<[exists EXCEPT !.resp = "True"],
                               [exists EXCEPT !.ev = "_load_cookies",
                                              !.jar = _load_cookies(file.data)]>>]
                  /\ Finish(t, Value("session", 0))
             ELSE /\ session' = [session EXCEPT ![owner[t]] = FreshSession]
                  /\ Emit(t, [exists EXCEPT !.resp = "False"])
                  /\ CallFrom(t, "login", Frame(<<"_login">>))
    /\ UNCHANGED <<data, out, storage, auth, owner, args>>

\* return session, once _login returned
get_session_end(t) ==
    /\ At(t, "get_session", "login")
    /\ Returned(t)
    /\ IF ret[t].kind = "exc"
         THEN Finish(t, ret[t]) /\ UNCHANGED session
         ELSE /\ session' = [session EXCEPT ![owner[t]].built = TRUE]
              /\ Finish(t, Value("session", 0))
    /\ UNCHANGED <<data, out, storage, auth, owner, log, args>>

\* -------------------------------------------------------------- the client
NoArgs == [op |-> "", command |-> "", vehicle_index |-> 0, poll |-> FALSE]
\* the calls a client may make on its session
Calls ==
    {[NoArgs EXCEPT !.op = "get_profile"]}
    \cup {[NoArgs EXCEPT !.op = op, !.vehicle_index = i] :
            op \in {"get_vehicle_health_report", "get_report", "get_tow_guide"},
            i \in VehicleIndexes}
    \cup {[op |-> "remote_command", command |-> c, vehicle_index |-> i, poll |-> p] :
            c \in Commands, i \in VehicleIndexes, p \in BOOLEAN}

\* a client thread calls get_session, or an operation on the session it holds
Call(t) ==
    /\ owner[t] # NoSession
    /\ Idle(t)
    /\ ~Returned(t)
    /\ \E a \in Calls \cup {[NoArgs EXCEPT !.op = "get_session"]} :
        /\ (a.op = "get_session") = ~Sess(t).built
        /\ args' = [args EXCEPT ![t] = a]
        /\ stack' = [stack EXCEPT ![t] = <<Frame(Binding(a.op))>>]
    /\ UNCHANGED <<storage, auth, owner, session, ret, log, data, out>>

\* the call is over: the client has its result or exception and goes on
CallEnds(t) ==
    /\ Idle(t)
    /\ Returned(t)
    /\ args' = [args EXCEPT ![t] = NoArgs]
    /\ ret' = [ret EXCEPT ![t] = NoRet]
    /\ log' = [log EXCEPT ![t] = <<>>]
    /\ data' = Node(<<>>)
    /\ out' = EmptyDict
    /\ UNCHANGED <<storage, auth, owner, session, stack>>

Step(t) ==
    \/ Call(t)
    \/ CallEnds(t)
    \/ _login_clear(t)
    \/ _login_sso(t)
    \/ _login_signin_post(t)
    \/ _login_signin_get(t)
    \/ _login_save(t)
    \/ authenticated_try(t)
    \/ authenticated_except(t)
    \/ authenticated_retry(t)
    \/ Return(t)
    \/ token(t)
    \/ get_profile(t)
    \/ get_vehicle_health_report_begin(t)
    \/ get_vehicle_health_report_fetch(t)
    \/ get_report_begin(t)
    \/ get_report_end(t)
    \/ get_tow_guide_begin(t)
    \/ get_tow_guide_post(t)
    \/ remote_command_begin(t)
    \/ remote_command_post(t)
    \/ _remote_status_query(t)
    \/ _remote_status_sleep(t)
    \/ get_session_begin(t)
    \/ get_session_end(t)

\* the cookie jars a stored blob may hold when the program starts
StoredJars == {LoginJar("alice"), {Cookie("alice", "sso")}}

\* one client thread with one session, stored at the default COOKIE_PATH
Init ==
    /\ storage \in
          {[p \in Paths |-> IF p = COOKIE_PATH THEN f ELSE NoFile] :
              f \in {NoFile} \cup {File(_save_cookies(j)) : j \in StoredJars}}
    /\ auth = [s \in Sessions |-> [username |-> s, cookie_path |-> COOKIE_PATH]]
    /\ owner = [t \in Threads |-> IF t = 1 THEN "alice" ELSE NoSession]
    /\ session = [s \in Sessions |-> FreshSession]
    /\ stack = [t \in Threads |-> <<>>]
    /\ ret = [t \in Threads |-> NoRet]
    /\ log = [t \in Threads |-> <<>>]
    /\ args = [t \in Threads |-> NoArgs]
    /\ data = Node(<<>>)
    /\ out = EmptyDict

Next == \E t \in Threads : Step(t)

Spec == Init /\ [][Next]_vars

\* -------------------------------------------- _traverse_report on its own
ItemKeys == {"categoryDesc", "oilLife", "tires"}
ItemValues ==
    {PyNone, Str("Null"), Str("N/A"), Str("NULL"), Str("0.0"),
     Str("null"), Str("0"), Str("32")}
Severities == {"NonDisplay", "Normal"}
Leaves ==
    {Item(k, v, sv, <<>>) : k \in ItemKeys, v \in ItemValues, sv \in Severities}
SeqsUpTo(S, n) == UNION {[1..m -> S] : m \in 0..n}
\* reports whose items have no nested items
FlatReports == {Node(items) : items \in SeqsUpTo(Leaves, MaxItems)}
\* reports of one item with nested items
NestedLeaves ==
    {Item(k, v, sv, <<>>) : k \in {"oilLife", "tires"},
                            v \in {PyNone, Str("0.0"), Str("32")}, sv \in Severities}
\* one item with one or two nested items, alone or followed by a sibling;
\* and one item with a nested item that has a nested item of its own
NestedReports ==
    {Node(<<[top EXCEPT !.items = items]>> \o sibling) :
        top \in NestedLeaves, items \in SeqsUpTo(NestedLeaves, 2) \ {<<>>},
        sibling \in SeqsUpTo(NestedLeaves, 1)}
    \cup {Node(<<[top EXCEPT !.items = <<[mid EXCEPT !.items = <<leaf>>]>>]>>) :
            top \in NestedLeaves, mid \in NestedLeaves, leaf \in NestedLeaves}

\* a caller holds a report and has not flattened it yet
InitReport ==
    /\ storage = [p \in Paths |-> NoFile]
    /\ auth = [s \in Sessions |-> [username |-> s, cookie_path |-> COOKIE_PATH]]
    /\ owner = [t \in Threads |-> NoSession]
    /\ session = [s \in Sessions |-> FreshSession]
    /\ stack = [t \in Threads |-> <<>>]
    /\ ret = [t \in Threads |-> NoRet]
    /\ log = [t \in Threads |-> <<>>]
    /\ args = [t \in Threads |-> NoArgs]
    /\ data \in FlatReports \cup NestedReports
    /\ out = EmptyDict

\* out = _traverse_report(data), called directly
Traverse ==
    /\ ret[1] = NoRet
    /\ out' = _traverse_report(data)
    /\ ret' = [ret EXCEPT ![1] = Value("report", 0)]
    /\ UNCHANGED <<storage, auth, owner, session, stack, log, args, data>>

NextReport == Traverse

SpecReport == InitReport /\ [][NextReport]_vars

\* ------------------------------------- two calls at once on one session
\* cookies loaded from a blob whose login has expired
StaleJar == {Cookie("alice", "sso")}

\* a session built by get_session from the stored blob; two client threads
\* hold it
InitShared ==
    /\ storage = [p \in Paths |->
                    IF p = COOKIE_PATH THEN File(_save_cookies(StaleJar)) ELSE NoFile]
    /\ auth = [s \in Sessions |-> [username |-> s, cookie_path |-> COOKIE_PATH]]
    /\ owner = [t \in Threads |-> "alice"]
    /\ session = [s \in Sessions |->
                    IF s = "alice"
                      THEN [built |-> TRUE, cookies |-> _load_cookies(_save_cookies(StaleJar)),
                            csrf |-> 0]
                      ELSE FreshSession]
    /\ stack = [t \in Threads |-> <<>>]
    /\ ret = [t \in Threads |-> NoRet]
    /\ log = [t \in Threads |-> <<>>]
    /\ args = [t \in Threads |-> NoArgs]
    /\ data = Node(<<>>)
    /\ out = EmptyDict

\* a thread calls get_profile(session), once
CallProfile(t) ==
    /\ Idle(t)
    /\ args[t] = NoArgs
    /\ Sess(t).built
    /\ args' = [args EXCEPT ![t] = [NoArgs EXCEPT !.op = "get_profile"]]
    /\ stack' = [stack EXCEPT ![t] = <<Frame(Binding("get_profile"))>>]
    /\ UNCHANGED <<storage, auth, owner, session, ret, log, data, out>>

\* the threads run one statement group at a time, in any order
NextShared ==
    \E t \in Threads :
        \/ CallProfile(t)
        \/ _login_clear(t)
        \/ _login_sso(t)
        \/ _login_signin_post(t)
        \/ _login_signin_get(t)
        \/ _login_save(t)
        \/ authenticated_try(t)
        \/ authenticated_except(t)
        \/ authenticated_retry(t)
        \/ Return(t)
        \/ get_profile(t)

SpecShared == InitShared /\ [][NextShared]_vars

\* ------------------------------------------ two sessions, two credentials
\* nothing is stored yet; alice's client calls get_session with the default
\* cookie_path, bob's with the default or with a path of its own
InitTwo ==
    /\ storage = [p \in Paths |-> NoFile]
    /\ auth \in {[s \in Sessions |->
                     [username |-> s,
                      cookie_path |-> IF s = "bob" THEN p ELSE COOKIE_PATH]] :
                  p \in Paths}
    /\ owner = [t \in Threads |-> IF t = 1 THEN "alice" ELSE "bob"]
    /\ session = [s \in Sessions |-> FreshSession]
    /\ stack = [t \in Threads |-> <<>>]
    /\ ret = [t \in Threads |-> NoRet]
    /\ log = [t \in Threads |-> <<>>]
    /\ args = [t \in Threads |-> NoArgs]
    /\ data = Node(<<>>)
    /\ out = EmptyDict

\* a client calls get_session(username, password, pin[, cookie_path])
CallSession(t) ==
    /\ Idle(t)
    /\ args[t] = NoArgs
    /\ args' = [args EXCEPT ![t] = [NoArgs EXCEPT !.op = "get_session"]]
    /\ stack' = [stack EXCEPT ![t] = <<Frame(Binding("get_session"))>>]
    /\ UNCHANGED <<storage, auth, owner, session, ret, log, data, out>>

NextTwo ==
    \E t \in Threads :
        \/ CallSession(t)
        \/ get_session_begin(t)
        \/ get_session_end(t)
        \/ _login_clear(t)
        \/ _login_sso(t)
        \/ _login_signin_post(t)
        \/ _login_signin_get(t)
        \/ _login_save(t)

SpecTwo == InitTwo /\ [][NextTwo]_vars

\* ================================================================ claims
Done(t) == Idle(t) /\ Returned(t)
\* positions in log[t] of the events e with P(e)
Where(t, P(_)) == {i \in DOMAIN log[t] : P(log[t][i])}
IsRequest(e) == e.ev \in {"GET", "POST"}
IsProfileFetch(e) == e.ev = "GET" /\ e.url = PROFILE_URL
IsTokenFetch(e) == e.ev = "GET" /\ e.url = TOKEN_URL
\* _login begins with session.cookies.clear(), which nothing else calls
IsLoginCall(e) == e.ev = "cookies.clear"
IsCommandPost(e) == e.ev = "POST" /\ e.url \in CommandUrls
IsSleep(e) == e.ev = "sleep"
\* the request an operation makes for itself once the vehicle is validated
IsOwnRequest(e) ==
    \/ e.ev = "GET" /\ e.url = VHR_URL
    \/ e.ev = "POST" /\ e.url = TOW_URL
    \/ IsCommandPost(e)
NotAuthenticated(e) == e.resp \in {"403", "nonjson"}
Min(S) == CHOOSE i \in S : \A j \in S : i <= j
Max(S) == CHOOSE i \in S : \A j \in S : i >= j
ValidationError == MoparError("vehicle does not exist")

\* the portal is otherwise well: every token fetch is answered with a token
\* and every SSO response carries both form fields (the statements below
\* that assume it are weaker than without it, so a violation found is one of
\* the unrestricted statement too)
PortalWell(t) ==
    /\ \A i \in Where(t, IsTokenFetch) : log[t][i].resp = "token"
    /\ \A i \in DOMAIN log[t] : log[t][i].url = SSO_URL => log[t][i].resp = "form"

ReauthWrapped == {"get_profile", "get_vehicle_health_report", "get_tow_guide"}
VehicleScoped ==
    {"get_vehicle_health_report", "get_report", "get_tow_guide", "remote_command"}

\* C1 (as claimed): a call of a re-authentication-wrapped operation in which
\* every profile fetch is answered 'not authenticated' ends with an error
\* and has invoked _login exactly once.
C1_OneLoginWhenNeverAuthenticated ==
    \A t \in Threads :
        (/\ Done(t)
         /\ PortalWell(t)
         /\ args[t].op \in ReauthWrapped
         /\ Where(t, IsProfileFetch) # {}
         /\ \A i \in Where(t, IsProfileFetch) : NotAuthenticated(log[t][i]))
        => /\ ret[t].kind = "exc"
           /\ Cardinality(Where(t, IsLoginCall)) = 1

\* what each wrapped operation returns when it succeeds
ResultOf(op) ==
    CASE op = "get_profile" -> {"profile", "errordoc"}
      [] op = "get_vehicle_health_report" -> {"vhr"}
      [] op = "get_tow_guide" -> {"towguide"}
      [] OTHER -> {}

\* the rest of the operation can succeed: the profiles served list the
\* requested vehicle and the operation's own request is answered with JSON
RestSucceeds(t) ==
    /\ args[t].op # "get_profile" =>
          \A i \in Where(t, IsProfileFetch) :
              \/ NotAuthenticated(log[t][i])
              \/ /\ log[t][i].resp = "profile"
                 /\ 0 <= args[t].vehicle_index
                 /\ args[t].vehicle_index < log[t][i].n
    /\ \A i \in Where(t, IsOwnRequest) : log[t][i].resp # "nonjson"

C2_Case(t) ==
    /\ Done(t)
    /\ args[t].op \in ReauthWrapped
    /\ Cardinality(Where(t, IsProfileFetch)) >= 2
    /\ \A i \in Where(t, IsProfileFetch) :
          NotAuthenticated(log[t][i]) <=> i = Min(Where(t, IsProfileFetch))
    /\ RestSucceeds(t)

\* C2: a call of a re-authentication-wrapped operation whose first profile
\* fetch is answered 'not authenticated' and whose run after re-login
\* succeeds (the profile is fetched, it lists the requested vehicle, the
\* operation's own request is answered with JSON) returns the operation's
\* result after exactly one _login, exactly two profile fetches and, but for
\* get_profile, exactly one request of its own.
C2_ReloginThenSuccess ==
    \A t \in Threads :
        C2_Case(t)
        => /\ ret[t].kind = "value"
           /\ ret[t].val \in ResultOf(args[t].op)
           /\ Cardinality(Where(t, IsLoginCall)) = 1
           /\ Cardinality(Where(t, IsProfileFetch)) = 2
           /\ Cardinality(Where(t, IsOwnRequest)) =
                 (IF args[t].op = "get_profile" THEN 0 ELSE 1)

C2_Witness ==
    /\ C2_Case(1)
    /\ args[1].op = "get_tow_guide"
    /\ ret[1] = Value("towguide", 0)

\* C3 (as claimed): remote_command with an unsupported command fails with
\* the validation error and has issued no request at all.
C3_UnsupportedBeforeAnyRequest ==
    \A t \in Threads :
        (/\ Done(t)
         /\ PortalWell(t)
         /\ args[t].op = "remote_command"
         /\ args[t].command \notin SUPPORTED_COMMANDS)
        => /\ ret[t] = MoparError("unsupported command")
           /\ Where(t, IsRequest) = {}

\* the index is out of range of every profile the portal served in the call
OutOfRange(t) ==
    \/ args[t].vehicle_index < 0
    \/ \A i \in Where(t, IsProfileFetch) :
          log[t][i].resp = "profile" => args[t].vehicle_index >= log[t][i].n

\* C4 (as claimed): a vehicle-scoped operation given an out-of-range index
\* fails with the validation error and has issued no request at all.
C4_Original ==
    \A t \in Threads :
        (/\ Done(t)
         /\ PortalWell(t)
         /\ args[t].op \in VehicleScoped
         /\ args[t].op = "remote_command" => args[t].command \in SUPPORTED_COMMANDS
         /\ OutOfRange(t)
         /\ \A i \in Where(t, IsProfileFetch) : log[t][i].resp = "profile")
        => /\ ret[t] = ValidationError
           /\ Where(t, IsRequest) = {}

\* C4 (amended): a vehicle-scoped operation given an index out of range of
\* every profile served during the call ends with an error and never issues
\* its own request (VHR GET, tow-guide POST, command POST); the validation
\* error itself is raised only after a profile has been fetched and, for the
\* token-wrapped operations, after the token fetch.
C4_OutOfRangeNeverSendsOwnRequest ==
    \A t \in Threads :
        (Done(t) /\ args[t].op \in VehicleScoped)
        => /\ OutOfRange(t) =>
                /\ ret[t].kind = "exc"
                /\ Where(t, IsOwnRequest) = {}
           /\ ret[t] = ValidationError =>
                /\ \E i \in Where(t, IsProfileFetch) :
                      /\ log[t][i].resp = "profile"
                      /\ \/ args[t].vehicle_index < 0
                         \/ args[t].vehicle_index >= log[t][i].n
                /\ args[t].op \in {"get_tow_guide", "remote_command"} =>
                      Where(t, IsTokenFetch) # {}

C4_Witness ==
    /\ Done(1)
    /\ args[1].op = "get_tow_guide"
    /\ args[1].vehicle_index = 1
    /\ OutOfRange(1)
    /\ ret[1] = ValidationError
    /\ \E i \in Where(1, IsProfileFetch) : log[1][i].resp = "profile" /\ log[1][i].n = 1

\* C5 (as claimed): in a vehicle-scoped operation whose profile fetch
\* succeeds with the index out of range, the validation error is surfaced
\* after a single attempt: no _login and no second profile fetch.
C5_ValidationNeverRetried ==
    \A t \in Threads :
        (/\ Done(t)
         /\ PortalWell(t)
         /\ args[t].op \in VehicleScoped
         /\ Where(t, IsProfileFetch) # {}
         /\ \A i \in Where(t, IsProfileFetch) : log[t][i].resp = "profile"
         /\ LET first == log[t][Min(Where(t, IsProfileFetch))]
            IN  /\ first.resp = "profile"
                /\ \/ args[t].vehicle_index < 0
                   \/ args[t].vehicle_index >= first.n)
        => /\ ret[t] = ValidationError
           /\ Where(t, IsLoginCall) = {}
           /\ Cardinality(Where(t, IsProfileFetch)) = 1

\* the one command POST of a remote_command call, when it has been issued
PostAt(t) == Min(Where(t, IsCommandPost))

\* C6 (as claimed): in remote_command with poll=True the events after the
\* command POST are status query, sleep(3), status query, sleep(3), ...; a
\* status query answered SUCCESS is the last event of the call, which then
\* returns 'completed' after exactly k+1 status queries and k sleeps; and
\* this for every k: however many non-terminal statuses the endpoint has
\* answered, the call goes on to the next query and ends only on SUCCESS.
C6_PollUntilSuccess ==
    \A t \in Threads :
        args[t].op = "remote_command" =>
            LET S == Where(t, IsStatusQuery)
                Z == Where(t, IsSleep)
                P == Where(t, IsCommandPost)
                n == Len(log[t])
            IN  /\ S \cup Z # {} => (args[t].poll /\ Cardinality(P) = 1)
                /\ P # {} =>
                      LET p == Min(P)
                      IN  \A i \in (p + 1)..n :
                              IF (i - p) % 2 = 1
                                THEN IsStatusQuery(log[t][i])
                                ELSE IsSleep(log[t][i]) /\ log[t][i].n = 3
                /\ \A i \in S : log[t][i].resp = "SUCCESS" => i = n
                /\ (Done(t) /\ S # {} /\ log[t][n].resp = "SUCCESS")
                   => LET k == Cardinality({i \in S : log[t][i].resp # "SUCCESS"})
                      IN  /\ ret[t] = Value("completed", 0)
                          /\ Cardinality(S) = k + 1
                          /\ Cardinality(Z) = k
                /\ (Done(t) /\ ret[t].val = "completed") =>
                      (IsStatusQuery(log[t][n]) /\ log[t][n].resp = "SUCCESS")
                /\ (Done(t) /\ S # {} /\ \A i \in S : log[t][i].resp # "nonjson")
                   => log[t][n].resp = "SUCCESS"

\* C7: remote_command with poll=False never issues a status query or a
\* sleep; its command POST is the last event of the call, and the call
\* returns 'submitted' as soon as that POST is answered (with a JSON body:
\* one that is not JSON raises from .json() instead).
C7_NoPollSubmitted ==
    \A t \in Threads :
        (args[t].op = "remote_command" /\ ~args[t].poll)
        => /\ Where(t, IsStatusQuery) \cup Where(t, IsSleep) = {}
           /\ Where(t, IsCommandPost) # {} =>
                 /\ Where(t, IsCommandPost) = {Len(log[t])}
                 /\ Returned(t)
                 /\ log[t][Len(log[t])].resp = "json" => ret[t] = Value("submitted", 0)
                 /\ log[t][Len(log[t])].resp # "json" => ret[t].kind = "exc"
           /\ (Done(t) /\ ret[t].val = "submitted") => Where(t, IsCommandPost) # {}

C7_Witness ==
    /\ Done(1)
    /\ args[1].op = "remote_command"
    /\ ~args[1].poll
    /\ ret[1] = Value("submitted", 0)
    /\ IsCommandPost(log[1][Len(log[1])])

\* the jar a stored blob holds
BlobJar(file) == {file.data[i] : i \in DOMAIN file.data}
\* the events of one complete _login, by kind and url
LoginEvents ==
    <<<<"cookies.clear", "">>, <<"POST", SSO_URL>>, <<"POST", SIGNIN_URL>>,
      <<"GET", SIGNIN_URL>>, <<"_save_cookies", COOKIE_PATH>>>>
Kinds(t) == [i \in DOMAIN log[t] |-> <<log[t][i].ev, log[t][i].url>>]

\* C8: a get_session that returns a session either found a blob at the
\* cookie path, and then holds exactly the blob's cookies and has made no
\* login and no request; or found none, and then has run exactly one full
\* login, after which the path holds a blob equal to the session's jar.
C8_GetSession ==
    \A t \in Threads :
        (Done(t) /\ args[t].op = "get_session" /\ ret[t].kind = "value")
        => LET file == storage[auth[owner[t]].cookie_path]
           IN  /\ Sess(t).built
               /\ file.exists
               /\ BlobJar(file) = Sess(t).cookies
               /\ IF log[t][1].resp = "True"
                    THEN /\ Kinds(t) = <<<<"os.path.exists", COOKIE_PATH>>,
                                         <<"_load_cookies", COOKIE_PATH>>>>
                         /\ Where(t, IsRequest) \cup Where(t, IsLoginCall) = {}
                    ELSE /\ Kinds(t) = <<<<"os.path.exists", COOKIE_PATH>>>> \o LoginEvents
                         /\ Cardinality(Where(t, IsLoginCall)) = 1
                         /\ Sess(t).cookies = LoginJar(auth[owner[t]].username)

C8_Witness ==
    /\ Done(1)
    /\ args[1].op = "get_session"
    /\ ret[1] = Value("session", 0)
    /\ log[1][1].resp = "False"
    /\ Len(log[1]) = 6
    /\ storage[COOKIE_PATH].exists

\* C9 (as claimed): a call during which the SSO response lacks RelayState or
\* SAMLResponse ends with the library's own error kind, MoparError.
C9_LoginFailureIsMoparError ==
    \A t \in Threads :
        (/\ Done(t)
         /\ \E i \in DOMAIN log[t] :
               /\ log[t][i].url = SSO_URL
               /\ log[t][i].resp \in {"noRelayState", "noSAMLResponse"})
        => IsMoparError(ret[t])

\* an item the flattening leaves out
Excluded(item) ==
    \/ item.severity = "NonDisplay"
    \/ item.itemKey = "categoryDesc"
    \/ item.value = PyNone
    \/ item.value \in {Str("Null"), Str("N/A"), Str("NULL")}
IsFlat(node) == \A i \in DOMAIN node.items : node.items[i].items = <<>>
Kept(node) == {i \in DOMAIN node.items : ~Excluded(node.items[i])}

\* C10: for a report whose items have no nested items, _traverse_report
\* returns the map whose keys are the keys of the items that are not
\* excluded, each mapped to "Ok" if the (last such) item's value is "0.0"
\* and to that value unchanged otherwise.
C10_FlatReport ==
    (ret[1].val = "report" /\ IsFlat(data))
    => /\ DOMAIN out = {data.items[i].itemKey : i \in Kept(data)}
       /\ \A k \in DOMAIN out :
             LET last == Max({i \in Kept(data) : data.items[i].itemKey = k})
                 v == data.items[last].value
             IN  out[k] = IF v = Str("0.0") THEN Str("Ok") ELSE v

C10_Witness ==
    /\ ret[1].val = "report"
    /\ data = Node(<<Item("tires", Str("NULL"), "Normal", <<>>),
                     Item("oilLife", Str("0.0"), "Normal", <<>>)>>)
    /\ DOMAIN out = {"oilLife"}
    /\ out["oilLife"] = Str("Ok")

\* -------------------------------------------------------------- C11..C20
Kind(e) == <<e.ev, e.url>>
IsLoginStep(e) ==
    e.ev \in {"cookies.clear", "_save_cookies"} \/ e.url \in {SSO_URL, SIGNIN_URL}
LastEvent(t) == log[t][Len(log[t])]

\* every login step logged is the k-th event of a run of _login that began
\* with the cookie clear, went on only after an SSO response carrying both
\* form fields, and writes storage right after the sign-in GET
LoginStepsInOrder(t) ==
    \A i \in DOMAIN log[t] :
        IsLoginStep(log[t][i]) =>
            /\ \E k \in DOMAIN LoginEvents :
                  /\ i >= k
                  /\ \A j \in 1..k : Kind(log[t][i - k + j]) = LoginEvents[j]
                  /\ k > 2 => log[t][i - k + 2].resp = "form"
            /\ Kind(log[t][i]) = <<"GET", SIGNIN_URL>> =>
                  IF i = Len(log[t])
                    THEN At(t, "_login", "save")
                    ELSE log[t][i + 1].ev = "_save_cookies"
            /\ (log[t][i].url = SSO_URL /\ log[t][i].resp # "form") => i = Len(log[t])

\* a step that changes storage is the _save_cookies of a login whose sign-in
\* GET was the event before, and writes the session's jar to its cookie path
StorageWrittenByLoginOnly ==
    storage' # storage =>
        \E t \in Threads :
            /\ log[t] # <<>>
            /\ Kind(LastEvent(t)) = <<"GET", SIGNIN_URL>>
            /\ log'[t] = Append(log[t], Event(t, "_save_cookies",
                                              auth[owner[t]].cookie_path, "", 0))
            /\ storage' = [storage EXCEPT ![auth[owner[t]].cookie_path] =
                              File(_save_cookies(Sess(t).cookies))]

\* C11: every run of _login performs, in this order, the cookie clear, the
\* SSO POST, the sign-in POST, the sign-in GET and the write of the session's
\* jar to its cookie path; storage is written once per login that got as far
\* as the sign-in GET, right after it, and by no other step, so a login that
\* fails earlier leaves the stored blob as it was.
C11_LoginOrder ==
    /\ [](\A t \in Threads : LoginStepsInOrder(t))
    /\ [][StorageWrittenByLoginOnly]_vars

C11_Witness ==
    /\ Done(1)
    /\ args[1].op = "get_profile"
    /\ Kinds(1) = <<<<"GET", PROFILE_URL>>>> \o LoginEvents \o <<<<"GET", PROFILE_URL>>>>
    /\ ret[1].kind = "value"
    /\ storage[COOKIE_PATH] = File(_save_cookies(LoginJar("alice")))

\* C12: a remote_command call issues its command POST at most once, also
\* when its profile fetch went through a re-login and a retry, and not at all
\* when the command is unsupported or the vehicle index is out of range of
\* the profile served; the POST it issues goes to the endpoint of the
\* command, for the vehicle asked for.
C12_CommandPostAtMostOnce ==
    \A t \in Threads :
        args[t].op = "remote_command" =>
            LET P == Where(t, IsCommandPost)
            IN  /\ Cardinality(P) <= 1
                /\ (args[t].command \notin SUPPORTED_COMMANDS \/ OutOfRange(t)) => P = {}
                /\ \A i \in P :
                      /\ log[t][i].action = args[t].command
                      /\ log[t][i].url = CommandUrl(args[t].command)
                      /\ log[t][i].vin = Vin(args[t].vehicle_index)

C12_Witness ==
    /\ Done(1)
    /\ args[1].op = "remote_command"
    /\ Cardinality(Where(1, IsLoginCall)) = 1
    /\ Cardinality(Where(1, IsProfileFetch)) = 2
    /\ Cardinality(Where(1, IsCommandPost)) = 1
    /\ ret[1] = Value("completed", 0)

\* C13: remote_command yields 'completed' only when a status query answered
\* SUCCESS, and every status query follows the call's command POST, goes to
\* the same endpoint and is keyed by the serviceRequestId that POST returned
\* and by the VIN of the validated vehicle; while the command POST is the
\* latest event, nothing has yielded 'completed'.
C13_CompletedOnlyAfterSuccess ==
    \A t \in Threads :
        args[t].op = "remote_command" =>
            LET S == Where(t, IsStatusQuery)
                P == Where(t, IsCommandPost)
            IN  /\ \A i \in S :
                      /\ P # {}
                      /\ i > PostAt(t)
                      /\ log[t][PostAt(t)].resp = "json"
                      /\ log[t][i].id = log[t][PostAt(t)].n
                      /\ log[t][i].vin = Vin(args[t].vehicle_index)
                      /\ log[t][i].vin = log[t][PostAt(t)].vin
                      /\ log[t][i].url = log[t][PostAt(t)].url
                /\ ret[t].val = "completed" =>
                      \E i \in S : log[t][i].resp = "SUCCESS"
                /\ (log[t] # <<>> /\ IsCommandPost(LastEvent(t))) =>
                      ret[t].val # "completed"

C13_Witness ==
    /\ Done(1)
    /\ args[1].op = "remote_command"
    /\ args[1].vehicle_index = 1
    /\ ret[1] = Value("completed", 0)
    /\ log[1][PostAt(1)].n = 2
    /\ Cardinality(Where(1, IsStatusQuery)) = 2
    /\ LastEvent(1).resp = "SUCCESS" /\ LastEvent(1).id = 2 /\ LastEvent(1).vin = 2

\* C14 (as claimed): a polling remote_command whose status endpoint has
\* answered no SUCCESS, only statuses that are not terminal, has not ended:
\* there is no outcome other than 'completed' and no bound on the number of
\* status queries.
C14_NoOutcomeWithoutSuccess ==
    \A t \in Threads :
        (/\ args[t].op = "remote_command"
         /\ args[t].poll
         /\ Where(t, IsStatusQuery) # {}
         /\ \A i \in Where(t, IsStatusQuery) : log[t][i].resp \in {"PENDING", "FAILED"})
        => ~Done(t)

\* C15 (as claimed): every status query, the first one after the command
\* POST included, directly follows a sleep of the fixed interval 3.
C15_SleepBeforeEveryQuery ==
    \A t \in Threads :
        \A i \in Where(t, IsStatusQuery) :
            /\ i > 1
            /\ IsSleep(log[t][i - 1])
            /\ log[t][i - 1].n = 3

\* the state-changing POSTs: the tow-guide POST and the command POST
IsStatePost(e) == e.ev = "POST" /\ (e.url = TOW_URL \/ IsCommandPost(e))
\* the latest token fetch before event i of the call (0: none)
TokenFetchBefore(t, i) ==
    LET F == {j \in Where(t, IsTokenFetch) : j < i}
    IN  IF F = {} THEN 0 ELSE Max(F)

\* C16: every tow-guide POST and every command POST comes after a token
\* fetch, with no other such POST in between, and carries as CSRF header
\* the token that fetch returned, the most recent one fetched on the
\* session; every attempt of get_tow_guide, the one after a re-login too,
\* begins with its own token fetch (a token fetch is followed by the profile
\* fetches of one attempt only, at most two).
C16_PostCarriesLatestToken ==
    \A t \in Threads :
        /\ \A i \in Where(t, IsStatePost) :
              LET j == TokenFetchBefore(t, i)
              IN  /\ j > 0
                  /\ log[t][j].resp = "token"
                  /\ log[t][i].csrf = log[t][j].n
                  /\ log[t][i].csrf = Sess(t).csrf
                  /\ \A k \in (j + 1)..(i - 1) : ~IsStatePost(log[t][k])
        /\ args[t].op = "get_tow_guide" =>
              \A i \in Where(t, IsProfileFetch) :
                  LET j == TokenFetchBefore(t, i)
                  IN  /\ j > 0
                      /\ Cardinality({k \in Where(t, IsProfileFetch) : j < k /\ k <= i}) <= 2

C16_Witness ==
    /\ Done(1)
    /\ args[1].op = "get_tow_guide"
    /\ ret[1] = Value("towguide", 0)
    /\ Cardinality(Where(1, IsTokenFetch)) = 2
    /\ log[1][Min(Where(1, IsTokenFetch))].n = 1
    /\ LastEvent(1).url = TOW_URL
    /\ LastEvent(1).csrf = 2
    /\ Where(1, IsLoginCall) # {}

\* C17 (as claimed): between a state-changing POST and the token fetch before
\* it, no _login (cookie clear and re-authentication) takes place.
C17_NoLoginBetweenTokenAndPost ==
    \A t \in Threads :
        \A i \in Where(t, IsStatePost) :
            \A k \in (TokenFetchBefore(t, i) + 1)..(i - 1) : ~IsLoginCall(log[t][k])

\* the profile fetches of a retry: the request right after the call's own
\* login wrote the jar
RetryAfterLogin(t) ==
    {i \in Where(t, IsProfileFetch) : i > 1 /\ log[t][i - 1].ev = "_save_cookies"}
SameSession(t, u) == u # t /\ owner[u] = owner[t]

\* C18: nothing excludes two calls on one session from each other around
\* login and retry: a call that has reached _login can always take its
\* cookie clear, and one whose _login returned can always go on to its retry,
\* wherever the other call stands; and a retry request carries other cookies
\* than the call's own login had just established only if another call on
\* the session has invoked _login.  (The witness is the state the claim says
\* is reachable: both calls saw the same expiry and both invoked _login, and
\* one call's retry ran on cookies the other's clear had left.)
C18_NoExclusionAroundLogin ==
    \A t \in Threads :
        /\ At(t, "_login", "start") => ENABLED _login_clear(t)
        /\ (At(t, "authenticated", "login") /\ Returned(t)) => ENABLED authenticated_retry(t)
        /\ \A i \in RetryAfterLogin(t) :
              log[t][i].jar # log[t][i - 1].jar =>
                  \E u \in Threads : SameSession(t, u) /\ Where(u, IsLoginCall) # {}

C18_Witness ==
    /\ \A t \in Threads :
          /\ log[t] # <<>>
          /\ IsProfileFetch(log[t][1])
          /\ log[t][1].resp = "403"
          /\ log[t][1].jar = StaleJar
          /\ Where(t, IsLoginCall) # {}
    /\ \E i \in RetryAfterLogin(1) :
          /\ log[1][i - 1].jar = LoginJar("alice")
          /\ log[1][i].jar # LoginJar("alice")

\* the step is one of thread t
StepOf(t) == stack'[t] # stack[t] \/ log'[t] # log[t]
\* what another session uses and loads: its jar and the blob at its path
Untouched(s) ==
    /\ session'[s] = session[s]
    /\ storage'[auth[s].cookie_path] = storage[auth[s].cookie_path]

\* C19 (as claimed): two sessions with distinct credentials share no state:
\* a session holds only cookies of its own login, and no step of one
\* session's client changes the other session's jar or the blob the other
\* session loads, the default storage location included.
C19_SessionsShareNoState ==
    /\ [](\A s \in Sessions : \A c \in session[s].cookies : c.user = auth[s].username)
    /\ [][\A t \in Threads :
             StepOf(t) => \A s \in Sessions \ {owner[t]} : Untouched(s)]_vars

\* the items that are not excluded and have no excluded ancestor, in
\* depth-first pre-order
RECURSIVE PreOrder(_)
PreOrder(items) ==
    IF items = <<>> THEN <<>>
    ELSE LET item == Head(items)
         IN  (IF Excluded(item) THEN <<>> ELSE <<item>> \o PreOrder(item.items))
                 \o PreOrder(Tail(items))

\* C20: for a report with nested items, the keys of _traverse_report's
\* output are the keys of the items that are not excluded and have no
\* excluded ancestor, and each key maps to the value ("Ok" for "0.0") of the
\* last such item with that key in depth-first pre-order.
C20_NestedReport ==
    (ret[1].val = "report" /\ ~IsFlat(data))
    => LET V == PreOrder(data.items)
       IN  /\ DOMAIN out = {V[i].itemKey : i \in DOMAIN V}
           /\ \A k \in DOMAIN out :
                 LET v == V[Max({i \in DOMAIN V : V[i].itemKey = k})].value
                 IN  out[k] = IF v = Str("0.0") THEN Str("Ok") ELSE v

C20_Witness ==
    /\ ret[1].val = "report"
    /\ data = Node(<<Item("oilLife", Str("32"), "Normal",
                          <<Item("oilLife", Str("0.0"), "Normal", <<>>),
                            Item("tires", Str("32"), "Normal", <<>>)>>),
                     Item("tires", Str("0.0"), "Normal", <<>>)>>)
    /\ DOMAIN out = {"oilLife", "tires"}
    /\ out["oilLife"] = Str("Ok")
    /\ out["tires"] = Str("Ok")

====
